---- MODULE Spec2Model ----
(***************************************************************************)
(* Model of pdfrecipefactory.py and pdfrecipebuilder.py: the configuration *)
(* objects PDFRecipeFactory / PDFRecipeBuilder and their make() procedure, *)
(* which walks the symmetry-reduced parameters of a crystal and adds one   *)
(* tagged recipe variable per parameter.                                   *)
(*                                                                         *)
(* Numbers are fixed-point, in units of 1/100 (rmin 1.0 is 100, fbqdamp    *)
(* 0.04 is 4): the code only copies them and tests them for zero.          *)
(* Names of recipe variables are sequences of one-character strings, so    *)
(* that startswith, split('_') and int() are computed, not assumed.        *)
(***************************************************************************)
EXTENDS Integers, Sequences, FiniteSets, TLC

\* ------------------------------------------------------------- bounds
\* number of PDFRecipeFactory instances that may be constructed
NInst == 2
\* number of PDFRecipeBuilder instances that may be constructed
NBuilders == 1
\* largest number of sites in the asymmetric unit of a crystal
MaxSites == 2

FactoryIds == 1..NInst
BuilderIds == 1..NBuilders

\* ------------------------------------------------------------- python helpers
\* the empty dict / empty keyword arguments
EmptyDict == [n \in {} |-> 0]

\* dict.update(kw) and the setattr loop: kw's entries win over base's
Override(base, kw) ==
    [n \in (DOMAIN base) \cup (DOMAIN kw) |->
        IF n \in DOMAIN kw THEN kw[n] ELSE base[n]]

\* Python's "a or b" on numbers: b when a is zero
PyOr(a, b) == IF a # 0 THEN a ELSE b

\* ------------------------------------------------------------- configuration
\* PDFRecipeFactory._config_presets
config_presets ==
    [rmin |-> 100, rmax |-> 2000, isotropy |-> FALSE, nyquist |-> FALSE,
     fbdelta2 |-> 200, fbbiso |-> 50, fbqdamp |-> 4, fbqbroad |-> 3]

\* PDFRecipeBuilder._config_presets
builder_config_presets ==
    [rmin |-> 100, rmax |-> 2000, isotropy |-> FALSE, nyquist |-> FALSE,
     fbdelta2 |-> 200, fbbiso |-> 50, fbqdamp |-> 4, fbqbroad |-> 3]

\* the eight configuration names
ConfigNames ==
    {"rmin", "rmax", "isotropy", "nyquist",
     "fbdelta2", "fbbiso", "fbqdamp", "fbqbroad"}

\* A variant of update that assigns the names it knows one by one and
\* raises at the end, so a rejected call leaves the valid names changed.
PDFRecipeFactory_update_partial(self, cls, kw) ==
    LET unknowns == {n \in DOMAIN kw : n \notin DOMAIN cls}
        known == [n \in (DOMAIN kw) \ unknowns |-> kw[n]]
    IN  [exc |-> IF unknowns # {} THEN "TypeError" ELSE "None",
         self |-> Override(self, known), cls |-> cls]

\* A variant of update that writes the new values into the class presets,
\* which all instances share, instead of into the instance.
PDFRecipeFactory_update_shared(self, cls, kw) ==
    LET unknowns == {n \in DOMAIN kw : n \notin DOMAIN cls}
    IN  IF unknowns # {}
        THEN [exc |-> "TypeError", self |-> self, cls |-> cls]
        ELSE [exc |-> "None", self |-> self, cls |-> Override(cls, kw)]

\* PDFRecipeFactory.update(**kw): self is the instance's attribute dict, cls
\* the class attribute _config_presets.  Returns the exception raised
\* ("None": returned normally) and both dicts as the call leaves them.
PDFRecipeFactory_update(self, cls, kw) ==
    LET unknowns == {n \in DOMAIN kw : n \notin DOMAIN cls}
    IN  IF unknowns # {}
        THEN [exc |-> "TypeError", self |-> self, cls |-> cls]
        ELSE [exc |-> "None", self |-> Override(self, kw), cls |-> cls]

\* PDFRecipeFactory.__init__(**kw): a fresh instance gets every preset as an
\* attribute, then update(**kw).
PDFRecipeFactory_init(cls, kw) ==
    PDFRecipeFactory_update(Override(EmptyDict, cls), cls, kw)

\* PDFRecipeBuilder.update(**kw): self is the builder object; the names are
\* checked against the instance's own _config.
PDFRecipeBuilder_update(self, kw) ==
    LET unknowns == {n \in DOMAIN kw : n \notin DOMAIN self.config}
    IN  IF unknowns # {}
        THEN [exc |-> "TypeError", self |-> self]
        ELSE [exc |-> "None",
              self |-> [self EXCEPT !.config = Override(self.config, kw)]]

\* PDFRecipeBuilder.__init__(crystal, pdfdata, **kw): crystal is a reference
\* to the caller's object, pdfdata is copied.
PDFRecipeBuilder_init(cls, crystal, pdfdata, kw) ==
    PDFRecipeBuilder_update(
        [config |-> Override(EmptyDict, cls), crystal |-> crystal,
         pdfdata |-> pdfdata], kw)

\* ------------------------------------------------------------- names
\* Python str operations on names held as sequences of characters.
DigitChars == <<"0", "1", "2", "3", "4", "5", "6", "7", "8", "9">>

\* '{}'.format(idx) for a non-negative integer
RECURSIVE FormatInt(_)
FormatInt(n) ==
    IF n < 10 THEN <<DigitChars[n + 1]>>
    ELSE FormatInt(n \div 10) \o <<DigitChars[(n % 10) + 1]>>

\* int(s) for a string of decimal digits
RECURSIVE ParseInt(_)
ParseInt(s) ==
    IF Len(s) = 0 THEN 0
    ELSE 10 * ParseInt(SubSeq(s, 1, Len(s) - 1))
         + (CHOOSE d \in 0..9 : DigitChars[d + 1] = s[Len(s)])

\* name.split('_')[-1]: what follows the last underscore (all of it if none)
RECURSIVE LastField(_)
LastField(s) ==
    IF Len(s) = 0 \/ s[Len(s)] = "_" THEN <<>>
    ELSE LastField(SubSeq(s, 1, Len(s) - 1)) \o <<s[Len(s)]>>

\* name.startswith(prefix)
startswith(s, prefix) ==
    Len(s) >= Len(prefix) /\ SubSeq(s, 1, Len(prefix)) = prefix

\* ------------------------------------------------------------- crystals
\* sgpars.isosymbol of a pyobjcryst crystal: "Biso"
isosymbol == <<"B", "i", "s", "o">>

symB11 == <<"B", "1", "1">>
symB22 == <<"B", "2", "2">>
symB33 == <<"B", "3", "3">>
symB13 == <<"B", "1", "3">>

\* One site of the asymmetric unit with its scattering power.  isotropic and
\* free are the outcome of the symmetry analysis: a site is either isotropic
\* or has the free anisotropic parameters listed in free; xyz lists its free
\* coordinates.
Site(xyz, isotropic, free, biso, b11, b22, b33) ==
    [xyz |-> xyz, isotropic |-> isotropic, free |-> free, Biso |-> biso,
     B11 |-> b11, B22 |-> b22, B33 |-> b33, B12 |-> 0, B13 |-> 0, B23 |-> 0]

\* the sites structures are drawn from: displacement parameters missing
\* (zero), present, and partly zero; one, two and four free ADPs
SitePool ==
    { Site(<<>>, TRUE, <<>>, 0, 0, 0, 0),
      Site(<<>>, TRUE, <<>>, 30, 30, 30, 30),
      Site(<<>>, FALSE, <<symB11, symB33>>, 0, 0, 0, 0),
      Site(<<"z">>, FALSE, <<symB11, symB33>>, 0, 40, 40, 60),
      Site(<<"x", "z">>, FALSE, <<symB11, symB22, symB33, symB13>>,
           20, 20, 0, 0) }

\* free lattice parameters, and the cosines (in 1/100) of the reciprocal
\* angles alpha*, beta*, gamma*: a cubic and a hexagonal lattice
Lattices ==
    { [latpars |-> << <<"a">> >>, cosrec |-> <<0, 0, 0>>],
      [latpars |-> << <<"a">>, <<"c">> >>, cosrec |-> <<0, 0, 50>>] }

SiteSeqs == UNION {[1..k -> SitePool] : k \in 1..MaxSites}

\* the objects a caller may pass as the crystal argument: pyobjcryst
\* Crystals, and diffpy.structure Structures of the same content
ObjectsOfType(types) ==
    {[type |-> t, latpars |-> l.latpars, cosrec |-> l.cosrec, sites |-> s] :
        t \in types, l \in Lattices, s \in SiteSeqs}

Objects == ObjectsOfType({"Crystal", "Structure"})

\* BaTiO3-Pm3m.cif of the tests: Ba and Ti isotropic, O with two free ADPs,
\* no displacement parameter given
BaTiO3 ==
    [type |-> "Crystal", latpars |-> << <<"a">> >>, cosrec |-> <<0, 0, 0>>,
     sites |-> << Site(<<>>, TRUE, <<>>, 0, 0, 0, 0),
                  Site(<<>>, TRUE, <<>>, 0, 0, 0, 0),
                  Site(<<>>, FALSE, <<symB11, symB33>>, 0, 0, 0, 0) >>]

\* a type test that lets every object through
isinstance_any(obj) == TRUE

\* isinstance(obj, Crystal)
isinstance_Crystal(obj) == obj.type = "Crystal"

\* ------------------------------------------------------------- parameters
\* A parameter of the structure or of the PDF generator: its name, its kind,
\* the symbol of the crystal attribute behind it and its site (-1: none).
Par(name, kind, sym, site) ==
    [name |-> name, kind |-> kind, sym |-> sym, site |-> site]

\* "<symbol>_<site index>", the names the symmetry analysis gives
SiteParName(sym, idx) == sym \o <<"_">> \o FormatInt(idx)

\* cpdf.scale, cpdf.cif.delta2, cpdf.qdamp, cpdf.qbroad
scalePar == Par(<<"s", "c", "a", "l", "e">>, "scale", <<>>, -1)
delta2Par == Par(<<"d", "e", "l", "t", "a", "2">>, "delta2", <<>>, -1)
qdampPar == Par(<<"q", "d", "a", "m", "p">>, "qdamp", <<>>, -1)
qbroadPar == Par(<<"q", "b", "r", "o", "a", "d">>, "qbroad", <<>>, -1)

\* cpdf.cif.phase.scatterers[idx].Biso
BisoPar(idx) == Par(isosymbol, "biso", isosymbol, idx)

\* sgpars.latpars: the lattice parameters the space group leaves free
sgpars_latpars(crystal) ==
    [k \in 1..Len(crystal.latpars) |->
        Par(crystal.latpars[k], "lattice", crystal.latpars[k], -1)]

\* the free coordinates of one site, named "x_0", "z_2", ...
SiteXyzPars(crystal, idx) ==
    LET xyz == crystal.sites[idx + 1].xyz
    IN  [k \in 1..Len(xyz) |->
            Par(SiteParName(<<xyz[k]>>, idx), "positions", <<xyz[k]>>, idx)]

\* the displacement parameters of one site: "Biso_<idx>" for a site the
\* symmetry makes isotropic, else one "B<ij>_<idx>" per free anisotropic
\* parameter of the site
SiteAdpPars(crystal, idx) ==
    LET site == crystal.sites[idx + 1]
    IN  IF site.isotropic
        THEN << Par(SiteParName(isosymbol, idx), "biso", isosymbol, idx) >>
        ELSE [k \in 1..Len(site.free) |->
                Par(SiteParName(site.free[k], idx), "adp", site.free[k], idx)]

RECURSIVE xyzparsUpTo(_, _)
xyzparsUpTo(crystal, n) ==
    IF n = 0 THEN <<>>
    ELSE xyzparsUpTo(crystal, n - 1) \o SiteXyzPars(crystal, n - 1)

RECURSIVE adpparsUpTo(_, _)
adpparsUpTo(crystal, n) ==
    IF n = 0 THEN <<>>
    ELSE adpparsUpTo(crystal, n - 1) \o SiteAdpPars(crystal, n - 1)

\* sgpars.xyzpars: the free coordinates of all sites, site after site
sgpars_xyzpars(crystal) == xyzparsUpTo(crystal, Len(crystal.sites))

\* sgpars.adppars: the free displacement parameters, site after site
sgpars_adppars(crystal) == adpparsUpTo(crystal, Len(crystal.sites))

\* the crystal attribute a displacement symbol stands for
AdpField(sym) ==
    CASE sym = symB11 -> "B11"
      [] sym = symB22 -> "B22"
      [] sym = symB33 -> "B33"
      [] sym = symB13 -> "B13"
      [] sym = isosymbol -> "Biso"

\* ------------------------------------------------------------- the recipe
\* While make() runs: vars is the recipe's list of variables so far, sites
\* the crystal's sites (make works on the caller's crystal in place), gen the
\* generator's delta2, qdamp and qbroad, exc the exception raised, if any.

\* par.value: only displacement and generator parameters carry a value in
\* this model; the others (lattice, positions, scale) read as 0
ParValue(st, par) ==
    CASE par.kind \in {"adp", "biso"} ->
            st.sites[par.site + 1][AdpField(par.sym)]
      [] par.kind \in {"delta2", "qdamp", "qbroad"} -> st.gen[par.kind]
      [] OTHER -> 0

\* par.setValue(v): writes through to the crystal or the generator
SetParValue(st, par, v) ==
    CASE par.kind \in {"adp", "biso"} ->
            [st EXCEPT !.sites[par.site + 1][AdpField(par.sym)] = v]
      [] par.kind \in {"delta2", "qdamp", "qbroad"} ->
            [st EXCEPT !.gen[par.kind] = v]
      [] OTHER -> st

\* recipe.get(name) is not None
recipe_has(st, name) == \E k \in 1..Len(st.vars) : st.vars[k].name = name

\* FitRecipe.addVar(par, value, name, tag, tags) of diffpy.srfit: a second
\* variable of the same name is refused with ValueError; a value that is
\* given is assigned to the parameter.  hasvalue is FALSE for value=None.
\* A call after an exception never happens.
recipe_addVar(st, par, name, hasvalue, value, tags) ==
    IF st.exc # "None" THEN st
    ELSE IF recipe_has(st, name) THEN [st EXCEPT !.exc = "ValueError"]
    ELSE LET st1 == IF hasvalue THEN SetParValue(st, par, value) ELSE st
         IN  [st1 EXCEPT !.vars =
                Append(@, [name |-> name, par |-> par, tags |-> tags,
                           value |-> ParValue(st1, par)])]

\* recipe.addVar(p, tags=tags) for each p of pars, in order
RECURSIVE addVars(_, _, _)
addVars(st, pars, tags) ==
    IF Len(pars) = 0 THEN st
    ELSE addVars(recipe_addVar(st, Head(pars), Head(pars).name, FALSE, 0,
                               tags),
                 Tail(pars), tags)

\* _dummyAtomWithBiso(crystal, biso): an isotropic atom in the crystal's
\* lattice; its B11, B22, B33 are biso and its off-diagonal terms biso times
\* the cosine of the reciprocal angle
dummyAtomWithBiso(crystal, biso) ==
    [B11 |-> biso, B22 |-> biso, B33 |-> biso,
     B12 |-> (biso * crystal.cosrec[3]) \div 100,
     B13 |-> (biso * crystal.cosrec[2]) \div 100,
     B23 |-> (biso * crystal.cosrec[1]) \div 100]

\* lines 172-179: a scattering power with a zero diagonal term gets the six
\* terms of the dummy atom
FillAdps(st, site, afbiso) ==
    LET spa == st.sites[site + 1]
    IN  IF ~(spa.B11 # 0 /\ spa.B22 # 0 /\ spa.B33 # 0)
        THEN [st EXCEPT !.sites[site + 1] =
                [spa EXCEPT !.B11 = afbiso.B11, !.B22 = afbiso.B22,
                            !.B33 = afbiso.B33, !.B12 = afbiso.B12,
                            !.B13 = afbiso.B13, !.B23 = afbiso.B23]]
        ELSE st

adpTags == {"phase", "adps"}

\* ------------------------------------------------------------- make
\* what make() hands back: the exception raised ("None": it returned), the
\* recipe (its calculation range and variables; empty unless it returned)
\* and the sites of the caller's crystal as make() leaves them
MakeResult(exc, range, vars, sites) ==
    [exc |-> exc,
     recipe |-> IF exc = "None" THEN [range |-> range, vars |-> vars]
                ELSE [range |-> <<>>, vars |-> <<>>],
     sites |-> sites]

\* profile.meta as make() sets it up: the caller's entries, none when no
\* meta was given
MetaOf(data) == IF data.hasmeta THEN data.meta ELSE EmptyDict

\* the generator takes delta2, qdamp and qbroad from the metadata and
\* starts them at zero otherwise
MetaValue(m, key) == IF key \in DOMAIN m THEN m[key] ELSE 0

GenOf(m) ==
    [delta2 |-> MetaValue(m, "delta2"), qdamp |-> MetaValue(m, "qdamp"),
     qbroad |-> MetaValue(m, "qbroad")]

\* cpdf.cif.getQmax(): the generator's qmax, taken from the metadata
getQmax(m) == MetaValue(m, "qmax")

\* lines 128-132: AssertionError under nyquist without a usable qmax
NyquistFails(nyquist, m) ==
    nyquist /\ ~("qmax" \in DOMAIN m /\ m["qmax"] = getQmax(m))

\* setCalculationRange(rmin, rmax) and, under nyquist, dx = pi / qmax;
\* dx 0 stands for the r-spacing of the observed data
CalculationRange(rmin, rmax, nyquist, m) ==
    <<rmin, rmax, IF nyquist THEN 314 \div m["qmax"] ELSE 0>>

\* A variant of the loop body with no isotropy branch: anisotropic
\* parameters are always added as they are.
PDFRecipeFactory_adpStep_noiso(st, p, cfg, afbiso) ==
    IF st.exc # "None" THEN st
    ELSE IF startswith(p.name, isosymbol)
    THEN recipe_addVar(st, p, p.name, TRUE,
                       PyOr(ParValue(st, p), cfg.fbbiso), adpTags)
    ELSE recipe_addVar(FillAdps(st, p.site, afbiso), p, p.name, FALSE, 0,
                       adpTags)

\* A variant of the loop body that tags the isotropic substitute 'adps'
\* only.
PDFRecipeFactory_adpStep_tag(st, p, cfg, afbiso) ==
    IF st.exc # "None" THEN st
    ELSE IF startswith(p.name, isosymbol)
    THEN recipe_addVar(st, p, p.name, TRUE,
                       PyOr(ParValue(st, p), cfg.fbbiso), adpTags)
    ELSE IF cfg.isotropy
    THEN LET idx == ParseInt(LastField(p.name))
             pbiso == BisoPar(idx)
             n == isosymbol \o <<"_">> \o FormatInt(idx)
             v == PyOr(ParValue(st, pbiso), cfg.fbbiso)
         IN  IF ~recipe_has(st, n)
             THEN recipe_addVar(st, pbiso, n, TRUE, v, {"adps"})
             ELSE st
    ELSE recipe_addVar(FillAdps(st, p.site, afbiso), p, p.name, FALSE, 0,
                       adpTags)

\* PDFRecipeFactory.make, lines 152-180: the body of "for p in
\* sgpars.adppars" for one p
PDFRecipeFactory_adpStep(st, p, cfg, afbiso) ==
    IF st.exc # "None" THEN st
    ELSE IF startswith(p.name, isosymbol)
    THEN recipe_addVar(st, p, p.name, TRUE,
                       PyOr(ParValue(st, p), cfg.fbbiso), adpTags)
    ELSE IF cfg.isotropy
    THEN LET idx == ParseInt(LastField(p.name))
             pbiso == BisoPar(idx)
             n == isosymbol \o <<"_">> \o FormatInt(idx)
             v == PyOr(ParValue(st, pbiso), cfg.fbbiso)
         IN  IF ~recipe_has(st, n)
             THEN recipe_addVar(st, pbiso, n, TRUE, v, adpTags)
             ELSE st
    ELSE recipe_addVar(FillAdps(st, p.site, afbiso), p, p.name, FALSE, 0,
                       adpTags)

RECURSIVE PDFRecipeFactory_adpLoop(_, _, _, _)
PDFRecipeFactory_adpLoop(st, pars, cfg, afbiso) ==
    IF Len(pars) = 0 THEN st
    ELSE PDFRecipeFactory_adpLoop(
             PDFRecipeFactory_adpStep(st, Head(pars), cfg, afbiso),
             Tail(pars), cfg, afbiso)

\* lines 181-190 (and 103-112 of the builder): delta2, qdamp and qbroad,
\* each started at its metadata value or else at its fallback
addPeakShapeVars(st, cfg) ==
    LET s1 == recipe_addVar(st, delta2Par, delta2Par.name, TRUE,
                  PyOr(ParValue(st, delta2Par), cfg.fbdelta2), {"phase"})
        s2 == recipe_addVar(s1, qdampPar, qdampPar.name, TRUE,
                  PyOr(ParValue(s1, qdampPar), cfg.fbqdamp), {"experiment"})
    IN  recipe_addVar(s2, qbroadPar, qbroadPar.name, TRUE,
                  PyOr(ParValue(s2, qbroadPar), cfg.fbqbroad),
                  {"experiment"})

\* PDFRecipeFactory.make(crystal, r, g, dg, meta): self is the instance's
\* attribute dict, crystal the object passed, data the PDF data
PDFRecipeFactory_make(self, crystal, data) ==
    IF ~isinstance_Crystal(crystal)
    THEN MakeResult("TypeError", <<>>, <<>>, crystal.sites)
    ELSE
    LET m == MetaOf(data)
    IN  IF NyquistFails(self.nyquist, m)
        THEN MakeResult("AssertionError", <<>>, <<>>, crystal.sites)
        ELSE
        LET st0 == [vars |-> <<>>, sites |-> crystal.sites, gen |-> GenOf(m),
                    exc |-> "None"]
            s1 == recipe_addVar(st0, scalePar, scalePar.name, FALSE, 0, {})
            s2 == addVars(s1, sgpars_latpars(crystal), {"phase", "lattice"})
            s3 == addVars(s2, sgpars_xyzpars(crystal),
                          {"phase", "positions"})
            afbiso == dummyAtomWithBiso(crystal, self.fbbiso)
            s4 == PDFRecipeFactory_adpLoop(s3, sgpars_adppars(crystal), self,
                                           afbiso)
            s5 == addPeakShapeVars(s4, self)
        IN  MakeResult(s5.exc,
                CalculationRange(self.rmin, self.rmax, self.nyquist, m),
                s5.vars, s5.sites)

\* ------------------------------------------------------------- the builder
\* the names bound at module level in pdfrecipebuilder.py (its imports and
\* its one class); a global name not among them raises NameError when the
\* line using it runs
builder_module_names ==
    {"collections", "numpy", "Crystal", "PDFContribution", "FitRecipe",
     "Lattice", "PDFRecipeBuilder"}

\* PDFRecipeBuilder.make, lines 78-102: the body of "for p in
\* sgpars.adppars"; the isotropic substitute is added without asking
\* whether the recipe has it already
PDFRecipeBuilder_adpStep(st, p, cfg, afbiso) ==
    IF st.exc # "None" THEN st
    ELSE IF startswith(p.name, isosymbol)
    THEN recipe_addVar(st, p, p.name, TRUE,
                       PyOr(ParValue(st, p), cfg.fbbiso), adpTags)
    ELSE IF cfg.isotropy
    THEN LET idx == ParseInt(LastField(p.name))
             pbiso == BisoPar(idx)
             n == isosymbol \o <<"_">> \o FormatInt(idx)
             v == PyOr(ParValue(st, pbiso), cfg.fbbiso)
         IN  recipe_addVar(st, pbiso, n, TRUE, v, adpTags)
    ELSE recipe_addVar(FillAdps(st, p.site, afbiso), p, p.name, FALSE, 0,
                       adpTags)

RECURSIVE PDFRecipeBuilder_adpLoop(_, _, _, _)
PDFRecipeBuilder_adpLoop(st, pars, cfg, afbiso) ==
    IF Len(pars) = 0 THEN st
    ELSE PDFRecipeBuilder_adpLoop(
             PDFRecipeBuilder_adpStep(st, Head(pars), cfg, afbiso),
             Tail(pars), cfg, afbiso)

\* PDFRecipeBuilder.make(): self is the builder object, crystal the object
\* self.crystal refers to.  Line 75 calls _dummyAtomWithUnitBiso, which the
\* module neither defines nor imports.  (Line 49 calls setObservedProfile on
\* the contribution rather than on its profile; should the library refuse
\* that, make() fails there instead, with the crystal untouched as well.)
PDFRecipeBuilder_make(self, crystal) ==
    LET cfg == self.config
        m == MetaOf(self.pdfdata)
    IN  IF NyquistFails(cfg.nyquist, m)
        THEN MakeResult("AssertionError", <<>>, <<>>, crystal.sites)
        ELSE
        LET st0 == [vars |-> <<>>, sites |-> crystal.sites, gen |-> GenOf(m),
                    exc |-> "None"]
            s1 == recipe_addVar(st0, scalePar, scalePar.name, FALSE, 0, {})
            s2 == addVars(s1, sgpars_latpars(crystal), {"phase", "lattice"})
            s3 == addVars(s2, sgpars_xyzpars(crystal),
                          {"phase", "positions"})
        IN  IF "_dummyAtomWithUnitBiso" \notin builder_module_names
            THEN MakeResult("NameError", <<>>, <<>>, s3.sites)
            ELSE
            LET afbiso == dummyAtomWithBiso(crystal, cfg.fbbiso)
                s4 == PDFRecipeBuilder_adpLoop(s3, sgpars_adppars(crystal),
                                               cfg, afbiso)
                s5 == addPeakShapeVars(s4, cfg)
            IN  MakeResult(s5.exc,
                    CalculationRange(cfg.rmin, cfg.rmax, cfg.nyquist, m),
                    s5.vars, s5.sites)

\* ------------------------------------------------------------- inputs
\* keyword arguments of the constructors and of update: none, those of the
\* tests (rmax=13, isotropy=True; xinvalid=4), a valid name together with
\* an unknown one, and a preset value passed explicitly
KwChoices ==
    { EmptyDict,
      [rmax |-> 1300, isotropy |-> TRUE],
      [xinvalid |-> 4],
      [rmax |-> 500, xinvalid |-> 4],
      [isotropy |-> FALSE] }

\* keyword arguments of the builder's constructor and update
BuilderKwChoices ==
    { EmptyDict,
      [rmax |-> 1300, isotropy |-> TRUE],
      [rmax |-> 500, xinvalid |-> 4] }

\* keyword arguments that matter to make()
MakeKwChoices ==
    { EmptyDict,
      [isotropy |-> TRUE],
      [nyquist |-> TRUE],
      [isotropy |-> TRUE, fbbiso |-> 0],
      [isotropy |-> TRUE, nyquist |-> TRUE],
      [fbbiso |-> 37, fbdelta2 |-> 0] }

PdfData(hasdg, hasmeta, meta) ==
    [r |-> "r", g |-> "g", hasdg |-> hasdg, hasmeta |-> hasmeta,
     meta |-> meta]

\* PDF data: without metadata, with empty metadata, with the metadata of
\* the tests, and with the peak-shape factors given
DataChoices ==
    { PdfData(FALSE, FALSE, EmptyDict),
      PdfData(TRUE, TRUE, EmptyDict),
      PdfData(FALSE, TRUE, [qmax |-> 26, stype |-> "N"]),
      PdfData(FALSE, TRUE,
              [qmax |-> 26, delta2 |-> 150, qdamp |-> 5, qbroad |-> 2]) }

\* the configurations and data the factory and the builder are compared on
DupKwChoices == { EmptyDict, [isotropy |-> TRUE], [nyquist |-> TRUE] }

DupDataChoices ==
    { PdfData(FALSE, FALSE, EmptyDict),
      PdfData(FALSE, TRUE, [qmax |-> 26, stype |-> "N"]) }

\* ------------------------------------------------------------- state
VARIABLES
    factory_presets,  \* the class attribute PDFRecipeFactory._config_presets
    factories,        \* live PDFRecipeFactory instances: id -> attributes
    builders,         \* live PDFRecipeBuilder instances: id -> object
    heap,             \* the caller's object that is passed as the crystal
    passed,           \* history: id -> name -> value last passed in a
                      \*   constructor or update call that returned
    attempted,        \* history: id -> name -> value last passed in any
                      \*   constructor or update call on the live instance
    last,             \* the latest constructor or update call
    lastMake,         \* the latest PDFRecipeFactory.make call
    lastBuild         \* the latest PDFRecipeBuilder.make call

vars ==
    <<factory_presets, factories, builders, heap, passed, attempted, last,
      lastMake, lastBuild>>

NoMake ==
    [called |-> FALSE, inst |-> 0, self |-> EmptyDict, crystal |-> BaTiO3,
     data |-> PdfData(FALSE, FALSE, EmptyDict), exc |-> "None",
     recipe |-> [range |-> <<>>, vars |-> <<>>], sites |-> <<>>]

\* the configuration names among the keyword arguments
Known(kw) == [n \in (DOMAIN kw) \cap ConfigNames |-> kw[n]]

InitWith(objects) ==
    /\ factory_presets = config_presets
    /\ factories = EmptyDict
    /\ builders = EmptyDict
    /\ heap \in objects
    /\ passed = EmptyDict
    /\ attempted = EmptyDict
    /\ last = [cls |-> "none", op |-> "none", inst |-> 0, kw |-> EmptyDict,
               exc |-> "None"]
    /\ lastMake = NoMake
    /\ lastBuild = NoMake

\* f = PDFRecipeFactory(**kw), f a new instance; when __init__ raises, no
\* instance comes to exist
FactoryNew(i, kw) ==
    /\ i \notin DOMAIN factories
    /\ LET res == PDFRecipeFactory_init(factory_presets, kw)
           ok == res.exc = "None"
       IN  /\ factories' = IF ok THEN factories @@ (i :> res.self)
                           ELSE factories
           /\ factory_presets' = res.cls
           /\ passed' = IF ok THEN passed @@ (i :> Known(kw)) ELSE passed
           /\ attempted' = IF ok THEN attempted @@ (i :> Known(kw))
                           ELSE attempted
           /\ last' = [cls |-> "PDFRecipeFactory", op |-> "__init__",
                       inst |-> i, kw |-> kw, exc |-> res.exc]
    /\ UNCHANGED <<builders, heap, lastMake, lastBuild>>

\* f.update(**kw)
FactoryUpdate(i, kw) ==
    /\ i \in DOMAIN factories
    /\ LET res == PDFRecipeFactory_update(factories[i], factory_presets, kw)
       IN  /\ factories' = [factories EXCEPT ![i] = res.self]
           /\ factory_presets' = res.cls
           /\ passed' = IF res.exc = "None"
                        THEN [passed EXCEPT ![i] = Override(@, Known(kw))]
                        ELSE passed
           /\ attempted' = [attempted EXCEPT ![i] = Override(@, Known(kw))]
           /\ last' = [cls |-> "PDFRecipeFactory", op |-> "update",
                       inst |-> i, kw |-> kw, exc |-> res.exc]
    /\ UNCHANGED <<builders, heap, lastMake, lastBuild>>

\* b = PDFRecipeBuilder(crystal, pdfdata, **kw), crystal the caller's object
BuilderNew(j, data, kw) ==
    /\ j \notin DOMAIN builders
    /\ LET res == PDFRecipeBuilder_init(builder_config_presets, "heap", data,
                                        kw)
       IN  /\ builders' = IF res.exc = "None" THEN builders @@ (j :> res.self)
                          ELSE builders
           /\ last' = [cls |-> "PDFRecipeBuilder", op |-> "__init__",
                       inst |-> j, kw |-> kw, exc |-> res.exc]
    /\ UNCHANGED <<factory_presets, factories, heap, passed, attempted,
                   lastMake, lastBuild>>

\* b.update(**kw)
BuilderUpdate(j, kw) ==
    /\ j \in DOMAIN builders
    /\ LET res == PDFRecipeBuilder_update(builders[j], kw)
       IN  /\ builders' = [builders EXCEPT ![j] = res.self]
           /\ last' = [cls |-> "PDFRecipeBuilder", op |-> "update",
                       inst |-> j, kw |-> kw, exc |-> res.exc]
    /\ UNCHANGED <<factory_presets, factories, heap, passed, attempted,
                   lastMake, lastBuild>>

\* f.make(crystal, r, g, dg, meta) on the caller's object; the crystal is
\* worked on in place
FactoryMake(i, data) ==
    /\ i \in DOMAIN factories
    /\ LET res == PDFRecipeFactory_make(factories[i], heap, data)
       IN  /\ heap' = [heap EXCEPT !.sites = res.sites]
           /\ lastMake' = [called |-> TRUE, inst |-> i, self |-> factories[i],
                           crystal |-> heap, data |-> data, exc |-> res.exc,
                           recipe |-> res.recipe, sites |-> res.sites]
    /\ UNCHANGED <<factory_presets, factories, builders, passed, attempted,
                   last, lastBuild>>

\* b.make()
BuilderMake(j) ==
    /\ j \in DOMAIN builders
    /\ LET res == PDFRecipeBuilder_make(builders[j], heap)
       IN  /\ heap' = [heap EXCEPT !.sites = res.sites]
           /\ lastBuild' = [called |-> TRUE, inst |-> j,
                            self |-> builders[j].config, crystal |-> heap,
                            data |-> builders[j].pdfdata, exc |-> res.exc,
                            recipe |-> res.recipe, sites |-> res.sites]
    /\ UNCHANGED <<factory_presets, factories, builders, passed, attempted,
                   last, lastMake>>

\* ------------------------------------------------------------- specifications
\* Configuration: constructors and update on any instance.
Init == InitWith({BaTiO3})

NewFactory == \E i \in FactoryIds, kw \in KwChoices : FactoryNew(i, kw)
UpdateFactory == \E i \in FactoryIds, kw \in KwChoices : FactoryUpdate(i, kw)
NewBuilder ==
    \E j \in BuilderIds, kw \in BuilderKwChoices :
        BuilderNew(j, PdfData(FALSE, FALSE, EmptyDict), kw)
UpdateBuilder ==
    \E j \in BuilderIds, kw \in BuilderKwChoices : BuilderUpdate(j, kw)

Next == NewFactory \/ UpdateFactory \/ NewBuilder \/ UpdateBuilder

Spec == Init /\ [][Next]_vars

\* make(): one factory, any object as the crystal argument.
InitMake == InitWith(Objects)

NewMakeFactory == \E kw \in MakeKwChoices : FactoryNew(1, kw)
MakeRecipe == \E data \in DataChoices : FactoryMake(1, data)

NextMake == NewMakeFactory \/ MakeRecipe

SpecMake == InitMake /\ [][NextMake]_vars

\* The factory and the builder side by side on one crystal.
InitDup == InitWith(ObjectsOfType({"Crystal"}))

NewDupFactory == \E kw \in DupKwChoices : FactoryNew(1, kw)
NewDupBuilder ==
    \E kw \in DupKwChoices, data \in DupDataChoices : BuilderNew(1, data, kw)
MakeDupFactory == \E data \in DupDataChoices : FactoryMake(1, data)
MakeDupBuilder == BuilderMake(1)

NextDup ==
    NewDupFactory \/ NewDupBuilder \/ MakeDupFactory \/ MakeDupBuilder

SpecDup == InitDup /\ [][NextDup]_vars

\* ------------------------------------------------------------- properties
\* C1: a constructor or update call whose keywords hold a name that is not
\* one of the eight configuration names raises TypeError, and such a call
\* changes no attribute of any instance (nor the presets), the valid names
\* passed along included; a rejected constructor leaves no instance.
C1_UnknownKeywordRejected ==
    [][ ((DOMAIN last'.kw) \ ConfigNames # {})
          => /\ last'.exc = "TypeError"
             /\ factories' = factories
             /\ builders' = builders
             /\ factory_presets' = factory_presets ]_vars

\* C1 witness: an update that passed rmax together with an unknown name was
\* rejected, and the instance's rmax is not the value passed
C1_Witness ==
    /\ last.cls = "PDFRecipeFactory"
    /\ last.op = "update"
    /\ last.exc = "TypeError"
    /\ "rmax" \in DOMAIN last.kw
    /\ factories[last.inst].rmax # last.kw.rmax

\* C2 as stated: every attribute of every instance is the value most
\* recently passed for its name to that instance's constructor or update
\* (in any call, rejected ones included), else the preset; the class presets
\* are never changed.
C2_LastPassedInAnyCall ==
    /\ factory_presets = config_presets
    /\ \A i \in DOMAIN factories :
        /\ DOMAIN factories[i] = ConfigNames
        /\ \A n \in ConfigNames :
            factories[i][n] = IF n \in DOMAIN attempted[i]
                              THEN attempted[i][n] ELSE config_presets[n]

\* C2, amended: every attribute of every instance is the value most
\* recently passed for its name in a constructor or update call on that
\* instance that did not raise, else the preset; a call on one instance
\* changes no other instance, and the class presets are never changed.
C2_LastPassedInAcceptedCall ==
    /\ factory_presets = config_presets
    /\ \A i \in DOMAIN factories :
        /\ DOMAIN factories[i] = ConfigNames
        /\ \A n \in ConfigNames :
            factories[i][n] = IF n \in DOMAIN passed[i]
                              THEN passed[i][n] ELSE config_presets[n]

\* C2 witness: two instances, the latest call an accepted update that gave
\* one of them an rmax the other never received
C2_Witness ==
    /\ last.cls = "PDFRecipeFactory" /\ last.op = "update"
    /\ last.exc = "None"
    /\ \E i, j \in DOMAIN factories :
        /\ i = last.inst /\ j # i
        /\ "rmax" \in DOMAIN last.kw
        /\ factories[i].rmax = last.kw.rmax
        /\ "rmax" \notin DOMAIN passed[j]
        /\ factories[j].rmax # factories[i].rmax

\* C3: make() with a crystal argument that is not a pyobjcryst Crystal
\* raises TypeError whatever the data and the configuration; no recipe is
\* built and neither the argument nor the factory is changed.
C3_NonCrystalRejected ==
    (lastMake.called /\ lastMake.crystal.type # "Crystal")
      => /\ lastMake.exc = "TypeError"
         /\ lastMake.recipe.vars = <<>>
         /\ lastMake.sites = lastMake.crystal.sites
         /\ heap = lastMake.crystal
         /\ factories[lastMake.inst] = lastMake.self

\* C3 witness: a Structure with missing displacement parameters was passed
\* to a factory set for Nyquist sampling, with no qmax in the data
C3_Witness ==
    /\ lastMake.called
    /\ lastMake.crystal.type = "Structure"
    /\ lastMake.exc = "TypeError"
    /\ lastMake.self.nyquist
    /\ ~lastMake.data.hasmeta
    /\ \E k \in 1..Len(lastMake.crystal.sites) :
        lastMake.crystal.sites[k].B11 = 0

\* the sites of a crystal that have displacement parameters
AdpSites(crystal) ==
    {idx \in 0..(Len(crystal.sites) - 1) :
        crystal.sites[idx + 1].isotropic
        \/ Len(crystal.sites[idx + 1].free) > 0}

\* the variables of a recipe that carry a tag
Tagged(recipe, tag) ==
    {k \in 1..Len(recipe.vars) : tag \in recipe.vars[k].tags}

\* C4: with isotropy set, make() returns a recipe for every Crystal (unless
\* Nyquist sampling lacks its qmax) whose variables tagged 'adps' are all
\* named "<isosymbol>_<site index>" and bound to that site's Biso, exactly
\* one for each site that has displacement parameters.
C4_IsotropyGivesOneBisoPerSite ==
    (lastMake.called /\ lastMake.self.isotropy
       /\ lastMake.exc \notin {"TypeError", "AssertionError"})
      => /\ lastMake.exc = "None"
         /\ \A k \in Tagged(lastMake.recipe, "adps") :
              LET v == lastMake.recipe.vars[k]
              IN  /\ startswith(v.name, isosymbol)
                  /\ v.par.kind = "biso"
                  /\ v.par.sym = isosymbol
                  /\ v.par.site \in AdpSites(lastMake.crystal)
                  /\ v.name = isosymbol \o <<"_">> \o FormatInt(v.par.site)
         /\ \A idx \in AdpSites(lastMake.crystal) :
              Cardinality({k \in Tagged(lastMake.recipe, "adps") :
                  lastMake.recipe.vars[k].par.site = idx}) = 1

\* C4 witness: a recipe made under isotropy for a crystal with a site of
\* four free anisotropic parameters, which holds that site's Biso variable
C4_Witness ==
    /\ lastMake.called /\ lastMake.exc = "None" /\ lastMake.self.isotropy
    /\ \E idx \in AdpSites(lastMake.crystal) :
        /\ ~lastMake.crystal.sites[idx + 1].isotropic
        /\ Len(lastMake.crystal.sites[idx + 1].free) = 4
        /\ \E k \in Tagged(lastMake.recipe, "adps") :
            lastMake.recipe.vars[k].par = BisoPar(idx)

\* the tags that go with each kind of parameter
TagsOfKind(kind) ==
    CASE kind = "lattice" -> {"phase", "lattice"}
      [] kind = "positions" -> {"phase", "positions"}
      [] kind \in {"adp", "biso"} -> {"phase", "adps"}
      [] kind = "delta2" -> {"phase"}
      [] kind \in {"qdamp", "qbroad"} -> {"experiment"}
      [] kind = "scale" -> {}

\* C5: in every recipe make() returns, each variable carries exactly the
\* tags of its kind, the recipe holds the scale, delta2, qdamp and qbroad,
\* and every variable but the scale is in exactly one of the groups 'phase'
\* and 'experiment'.
C5_TagsByKind ==
    (lastMake.called /\ lastMake.exc = "None")
      => LET rv == lastMake.recipe.vars
         IN  /\ \A k \in 1..Len(rv) :
                  /\ rv[k].tags = TagsOfKind(rv[k].par.kind)
                  /\ rv[k].par.kind # "scale"
                       => Cardinality(rv[k].tags
                                      \cap {"phase", "experiment"}) = 1
             /\ \A kind \in {"scale", "delta2", "qdamp", "qbroad"} :
                  \E k \in 1..Len(rv) : rv[k].par.kind = kind

\* C5 witness: a recipe made under isotropy and Nyquist sampling that holds
\* lattice, position and substituted displacement variables
C5_Witness ==
    /\ lastMake.called /\ lastMake.exc = "None"
    /\ lastMake.self.isotropy /\ lastMake.self.nyquist
    /\ \E k \in 1..Len(lastMake.recipe.vars) :
        lastMake.recipe.vars[k].par.kind = "positions"
    /\ \E k \in 1..Len(lastMake.recipe.vars) :
        LET v == lastMake.recipe.vars[k]
        IN  /\ v.par.kind = "biso"
            /\ ~lastMake.crystal.sites[v.par.site + 1].isotropic

\* C6: whenever the factory and the builder have been run with the same
\* configuration, the same Crystal and the same PDF data, both failed, or
\* both returned recipes with the same variables and left the crystal the
\* same.
C6_BuilderDuplicatesFactory ==
    (/\ lastMake.called /\ lastBuild.called
     /\ lastMake.self = lastBuild.self
     /\ lastMake.crystal = lastBuild.crystal
     /\ lastMake.data = lastBuild.data)
      => \/ lastMake.exc # "None" /\ lastBuild.exc # "None"
         \/ /\ lastMake.exc = "None" /\ lastBuild.exc = "None"
            /\ lastMake.recipe.vars = lastBuild.recipe.vars
            /\ lastMake.sites = lastBuild.sites

====
